---- MODULE Spec2Model ----
(***************************************************************************)
(* rocketmq-rs: the wire protocol codec (src/src/protocol.rs) and the      *)
(* producer options / construction (src/src/producer/mod.rs).              *)
(*                                                                         *)
(* Bytes are the integers 0..255, strings (Rust String, always UTF-8) and  *)
(* byte vectors are sequences of bytes, a HashMap<String, String> is a     *)
(* function from its key set to its values.                                *)
(***************************************************************************)
EXTENDS Integers, Sequences, FiniteSets, TLC

VARIABLES
    GLOBAL_OPAQUE,  \* protocol.rs:11, the process-wide AtomicIsize
    issued,         \* history: the opaque of every constructed command, in construction order
    pc,             \* per thread: how far it is: "start", "constructed", "encoded", "received", "decoded"
    held,           \* per thread: the RemoteCommand it last constructed (or NoCmd)
    buf,            \* per thread: the Vec<u8> its last encode() returned
    input,          \* per thread: the slice it hands to from_buffer
    result,         \* per thread: what from_buffer did with input (or NoResult)
    options,        \* producer/mod.rs:34, the ProducerOptions value being configured
    lastSet,        \* history: per option field, the argument of the last setter call (or Unset)
    lastOp,         \* history: the operation that produced the current state
    resolved,       \* history: outcome of the resolve step of the last construction (or NoResolve)
    built           \* the Result<Producer, Error> of the last construction (or NotBuilt)

vars == <<GLOBAL_OPAQUE, issued, pc, held, buf, input, result,
          options, lastSet, lastOp, resolved, built>>

protocolVars == <<GLOBAL_OPAQUE, issued, pc, held, buf, input, result>>
producerVars == <<options, lastSet, lastOp, resolved, built>>

-----------------------------------------------------------------------------
(* Bounds of the model *)

\* width w of the signed `opaque` field in the model (i32 in the source)
OpaqueBits == 3
\* cap on the number of RemoteCommand::new calls of one behaviour
MaxNew == 9

-----------------------------------------------------------------------------
(* Integer conversions *)

_HEADER_LENGTH == 4

\* a saturating conversion in place of the truncating `as i32`
as_i32_saturating(x) ==
    IF x > 2^(OpaqueBits - 1) - 1 THEN 2^(OpaqueBits - 1) - 1
    ELSE IF x < 0 - 2^(OpaqueBits - 1) THEN 0 - 2^(OpaqueBits - 1)
    ELSE x

\* `x as i32` for the opaque, at the model width: keep the low w bits, signed
as_i32(x) ==
    ((x + 2^(OpaqueBits - 1)) % 2^OpaqueBits) - 2^(OpaqueBits - 1)

\* `length as i32` / `header_len as i32` of encode, where x is a usize
len_as_i32(x) ==
    IF x <= 2147483647 THEN x ELSE x - 2147483647 - 2147483647 - 2

\* write_i32::<LittleEndian> in place of BigEndian
write_i32_le(n) ==
    LET u == IF n >= 0 THEN n ELSE (n + 2147483647) + 1
        top == IF n >= 0 THEN 0 ELSE 128
    IN  << u % 256, (u \div 256) % 256, (u \div 65536) % 256, top + (u \div 16777216) >>

\* WriteBytesExt::write_i32::<BigEndian>: the four bytes of a 32-bit two's complement value
write_i32_be(n) ==
    LET u == IF n >= 0 THEN n ELSE (n + 2147483647) + 1   \* low 31 bits
        top == IF n >= 0 THEN 0 ELSE 128                  \* sign bit
    IN  << top + (u \div 16777216), (u \div 65536) % 256, (u \div 256) % 256, u % 256 >>

\* ReadBytesExt::read_i32::<BigEndian> on four bytes
read_i32_be(b) ==
    LET low == ((b[1] % 128) * 16777216) + (b[2] * 65536) + (b[3] * 256) + b[4]
    IN  IF b[1] >= 128 THEN (low - 2147483647) - 1 ELSE low

-----------------------------------------------------------------------------
(* serde_json::to_vec(&Header) *)

RECURSIVE Digits(_)
Digits(n) == IF n < 10 THEN << 48 + n >> ELSE Digits(n \div 10) \o << 48 + (n % 10) >>

\* itoa of a signed integer
itoa(n) == IF n < 0 THEN << 45 >> \o Digits(0 - n) ELSE Digits(n)

HexDigit(d) == IF d < 10 THEN 48 + d ELSE 87 + d

\* serde_json's ESCAPE table: what one byte of a string is written as
escape_byte(b) ==
    CASE b = 34 -> << 92, 34 >>
      [] b = 92 -> << 92, 92 >>
      [] b = 8  -> << 92, 98 >>
      [] b = 9  -> << 92, 116 >>
      [] b = 10 -> << 92, 110 >>
      [] b = 12 -> << 92, 102 >>
      [] b = 13 -> << 92, 114 >>
      [] b < 32 /\ b \notin {8, 9, 10, 12, 13} ->
            << 92, 117, 48, 48, HexDigit(b \div 16), HexDigit(b % 16) >>
      [] OTHER -> << b >>

RECURSIVE escape_str(_)
escape_str(s) == IF s = << >> THEN << >> ELSE escape_byte(Head(s)) \o escape_str(Tail(s))

json_string(s) == << 34 >> \o escape_str(s) \o << 34 >>

\* a HashMap<String, String>, its entries written in the iteration order `order`
RECURSIVE json_entries(_, _)
json_entries(m, order) ==
    IF order = << >> THEN << >>
    ELSE json_string(Head(order)) \o << 58 >> \o json_string(m[Head(order)])
         \o (IF Tail(order) = << >> THEN << >> ELSE << 44 >>)
         \o json_entries(m, Tail(order))

json_map(m, order) == << 123 >> \o json_entries(m, order) \o << 125 >>

KeyCode      == << 99, 111, 100, 101 >>                              \* code
KeyLanguage  == << 108, 97, 110, 103, 117, 97, 103, 101 >>           \* language
KeyVersion   == << 118, 101, 114, 115, 105, 111, 110 >>              \* version
KeyOpaque    == << 111, 112, 97, 113, 117, 101 >>                    \* opaque
KeyFlag      == << 102, 108, 97, 103 >>                              \* flag
KeyRemark    == << 114, 101, 109, 97, 114, 107 >>                    \* remark
KeyExtFields == << 101, 120, 116, 95, 102, 105, 101, 108, 100, 115 >> \* ext_fields

\* the derived Serialize of Header: the fields in declaration order
to_vec(h, order) ==
    << 123 >>
    \o json_string(KeyCode) \o << 58 >> \o itoa(h.code) \o << 44 >>
    \o json_string(KeyLanguage) \o << 58 >> \o json_string(h.language) \o << 44 >>
    \o json_string(KeyVersion) \o << 58 >> \o itoa(h.version) \o << 44 >>
    \o json_string(KeyOpaque) \o << 58 >> \o itoa(h.opaque) \o << 44 >>
    \o json_string(KeyFlag) \o << 58 >> \o itoa(h.flag) \o << 44 >>
    \o json_string(KeyRemark) \o << 58 >> \o json_string(h.remark) \o << 44 >>
    \o json_string(KeyExtFields) \o << 58 >> \o json_map(h.ext_fields, order)
    \o << 125 >>

-----------------------------------------------------------------------------
(* serde_json::from_slice::<Header> *)
(* A parse step returns [ok |-> TRUE, v |-> value, i |-> next position] or Fail. *)

Fail == [ok |-> FALSE]

\* F applied to the value of v, v evaluated once (a strict LET)
Strict(v, F(_)) == CHOOSE y \in { F(x) : x \in {v} } : TRUE

IsWs(c) == c \in {32, 9, 10, 13}

RECURSIVE skip_ws(_, _)
skip_ws(b, i) == IF i <= Len(b) /\ IsWs(b[i]) THEN skip_ws(b, i + 1) ELSE i

HexVal(c) ==
    CASE c >= 48 /\ c <= 57  -> c - 48
      [] c >= 65 /\ c <= 70  -> c - 55
      [] c >= 97 /\ c <= 102 -> c - 87
      [] OTHER -> 0 - 1

\* the value of the four hex digits at b[i..i+3], or -1
Hex4(b, i) ==
    IF i + 3 > Len(b) \/ \E k \in 0..3 : HexVal(b[i + k]) < 0 THEN 0 - 1
    ELSE (HexVal(b[i]) * 4096) + (HexVal(b[i + 1]) * 256) + (HexVal(b[i + 2]) * 16) + HexVal(b[i + 3])

\* UTF-8 of one code point
utf8_encode(cp) ==
    CASE cp < 128 -> << cp >>
      [] cp >= 128 /\ cp < 2048 -> << 192 + (cp \div 64), 128 + (cp % 64) >>
      [] cp >= 2048 /\ cp < 65536 ->
            << 224 + (cp \div 4096), 128 + ((cp \div 64) % 64), 128 + (cp % 64) >>
      [] OTHER ->
            << 240 + (cp \div 262144), 128 + ((cp \div 4096) % 64),
               128 + ((cp \div 64) % 64), 128 + (cp % 64) >>

IsCont(b, i) == i <= Len(b) /\ b[i] >= 128 /\ b[i] <= 191

\* str::from_utf8: well-formed UTF-8 (Unicode table 3-7)
RECURSIVE valid_utf8(_, _)
valid_utf8(b, i) ==
    IF i > Len(b) THEN TRUE
    ELSE LET c == b[i] IN
         CASE c < 128 -> valid_utf8(b, i + 1)
           [] c >= 194 /\ c <= 223 -> IsCont(b, i + 1) /\ valid_utf8(b, i + 2)
           [] c >= 224 /\ c <= 239 ->
                 /\ IsCont(b, i + 1) /\ IsCont(b, i + 2)
                 /\ (c = 224 => b[i + 1] >= 160)
                 /\ (c = 237 => b[i + 1] <= 159)
                 /\ valid_utf8(b, i + 3)
           [] c >= 240 /\ c <= 244 ->
                 /\ IsCont(b, i + 1) /\ IsCont(b, i + 2) /\ IsCont(b, i + 3)
                 /\ (c = 240 => b[i + 1] >= 144)
                 /\ (c = 244 => b[i + 1] <= 143)
                 /\ valid_utf8(b, i + 4)
           [] OTHER -> FALSE

\* the escape starting at the backslash b[i]: [ok, v |-> its bytes, i |-> next]
parse_escape(b, i) ==
    IF i + 1 > Len(b) THEN Fail
    ELSE LET e == b[i + 1] IN
         CASE e = 34  -> [ok |-> TRUE, v |-> << 34 >>, i |-> i + 2]
           [] e = 92  -> [ok |-> TRUE, v |-> << 92 >>, i |-> i + 2]
           [] e = 47  -> [ok |-> TRUE, v |-> << 47 >>, i |-> i + 2]
           [] e = 98  -> [ok |-> TRUE, v |-> << 8 >>, i |-> i + 2]
           [] e = 102 -> [ok |-> TRUE, v |-> << 12 >>, i |-> i + 2]
           [] e = 110 -> [ok |-> TRUE, v |-> << 10 >>, i |-> i + 2]
           [] e = 114 -> [ok |-> TRUE, v |-> << 13 >>, i |-> i + 2]
           [] e = 116 -> [ok |-> TRUE, v |-> << 9 >>, i |-> i + 2]
           [] e = 117 ->
                 Strict(Hex4(b, i + 2), LAMBDA hi :
                 IF hi < 0 THEN Fail
                 ELSE IF hi >= 56320 /\ hi <= 57343 THEN Fail       \* lone low surrogate
                 ELSE IF hi >= 55296 /\ hi <= 56319 THEN            \* high surrogate: a pair
                      IF i + 7 > Len(b) \/ b[i + 6] # 92 \/ b[i + 7] # 117 THEN Fail
                      ELSE Strict(Hex4(b, i + 8), LAMBDA lo :
                           IF lo < 56320 \/ lo > 57343 THEN Fail
                           ELSE [ok |-> TRUE,
                                 v |-> utf8_encode(65536 + ((hi - 55296) * 1024) + (lo - 56320)),
                                 i |-> i + 12])
                 ELSE [ok |-> TRUE, v |-> utf8_encode(hi), i |-> i + 6])
           [] OTHER -> Fail

RECURSIVE str_body(_, _, _)
str_body(b, i, acc) ==
    IF i > Len(b) THEN Fail
    ELSE LET c == b[i] IN
         CASE c = 34 -> [ok |-> TRUE, v |-> acc, i |-> i + 1]
           [] c = 92 -> Strict(parse_escape(b, i),
                               LAMBDA e : IF e.ok THEN str_body(b, e.i, acc \o e.v) ELSE Fail)
           [] c < 32 -> Fail                      \* raw control character inside a string
           [] OTHER  -> Strict(<< i + 1, Append(acc, c) >>, LAMBDA s : str_body(b, s[1], s[2]))

\* a JSON string starting at b[i]; its bytes must be UTF-8
parse_string(b, i) ==
    IF i > Len(b) \/ b[i] # 34 THEN Fail
    ELSE Strict(str_body(b, i + 1, << >>),
                LAMBDA r : IF r.ok /\ valid_utf8(r.v, 1) THEN r ELSE Fail)

IsDigit(c) == c >= 48 /\ c <= 57

RECURSIVE int_digits(_, _, _)
int_digits(b, i, acc) ==
    IF i <= Len(b) /\ IsDigit(b[i]) THEN int_digits(b, i + 1, (acc * 10) + (b[i] - 48))
    ELSE [ok |-> TRUE, v |-> acc, i |-> i]

\* a JSON integer starting at b[i]: -? (0 | [1-9][0-9]*)
parse_int(b, i) ==
    LET neg == i <= Len(b) /\ b[i] = 45
        j   == IF neg THEN i + 1 ELSE i
    IN  IF j > Len(b) \/ ~IsDigit(b[j]) THEN Fail
        ELSE Strict(IF b[j] = 48 THEN [ok |-> TRUE, v |-> 0, i |-> j + 1] ELSE int_digits(b, j, 0),
                    LAMBDA m : [ok |-> TRUE, v |-> IF neg THEN 0 - m.v ELSE m.v, i |-> m.i])

\* HashMap::insert
map_insert(m, k, v) == [x \in (DOMAIN m) \cup {k} |-> IF x = k THEN v ELSE m[x]]

\* one entry of a JSON object of strings, with what follows it:
\* [ok, v |-> acc with the entry inserted, i |-> next, more |-> a "," followed]
map_entry(b, i, acc) ==
    Strict(parse_string(b, skip_ws(b, i)), LAMBDA k :
    IF ~k.ok THEN Fail ELSE
    Strict(skip_ws(b, k.i), LAMBDA c :
    IF c > Len(b) \/ b[c] # 58 THEN Fail ELSE
    Strict(parse_string(b, skip_ws(b, c + 1)), LAMBDA v :
    IF ~v.ok THEN Fail ELSE
    Strict(skip_ws(b, v.i), LAMBDA n :
    IF n > Len(b) \/ b[n] \notin {44, 125} THEN Fail
    ELSE [ok |-> TRUE, v |-> map_insert(acc, k.v, v.v), i |-> n + 1, more |-> b[n] = 44]))))

\* the entries of a JSON object of strings, after its "{"
RECURSIVE map_entries(_, _, _)
map_entries(b, i, acc) ==
    Strict(map_entry(b, i, acc), LAMBDA e :
    IF ~e.ok THEN Fail
    ELSE IF e.more THEN map_entries(b, e.i, e.v)
    ELSE [ok |-> TRUE, v |-> e.v, i |-> e.i])

\* a HashMap<String, String> starting at b[i]
parse_map(b, i) ==
    IF i > Len(b) \/ b[i] # 123 THEN Fail
    ELSE Strict(skip_ws(b, i + 1), LAMBDA j :
         IF j <= Len(b) /\ b[j] = 125 THEN [ok |-> TRUE, v |-> << >>, i |-> j + 1]
         ELSE map_entries(b, j, << >>))

FieldNames == {"code", "language", "version", "opaque", "flag", "remark", "ext_fields"}

\* the derived field identifier of Header; "" for a key the struct does not have
field_of(key) ==
    CASE key = KeyCode      -> "code"
      [] key = KeyLanguage  -> "language"
      [] key = KeyVersion   -> "version"
      [] key = KeyOpaque    -> "opaque"
      [] key = KeyFlag      -> "flag"
      [] key = KeyRemark    -> "remark"
      [] key = KeyExtFields -> "ext_fields"
      [] OTHER -> ""

\* the value of field f starting at b[i], by the field's Rust type
parse_field(f, b, i) ==
    CASE f \in {"code", "version", "flag"} -> parse_int(b, i)                \* isize
      [] f = "opaque" ->                                                      \* i32
            Strict(parse_int(b, i), LAMBDA r :
            IF r.ok /\ r.v >= 0 - 2^(OpaqueBits - 1) /\ r.v < 2^(OpaqueBits - 1) THEN r ELSE Fail)
      [] f \in {"language", "remark"} -> parse_string(b, i)                   \* String
      [] f = "ext_fields" -> parse_map(b, i)                                  \* HashMap
      [] OTHER -> Fail

\* one field of the Header object, with what follows it; acc holds the fields
\* read so far: [ok, v |-> acc with the field, i |-> next, more |-> a "," followed].
\* A key that is no field of Header is skipped by serde together with its value;
\* every input of this model that damages a key puts a NUL byte into it, which
\* parse_string rejects first, so that branch is never taken and is left as Fail.
header_field(b, i, acc) ==
    Strict(parse_string(b, skip_ws(b, i)), LAMBDA k :
    IF ~k.ok THEN Fail ELSE
    Strict(<< field_of(k.v), skip_ws(b, k.i) >>, LAMBDA fc :
    IF fc[1] = "" \/ fc[1] \in DOMAIN acc THEN Fail            \* (unknown) / duplicate field
    ELSE IF fc[2] > Len(b) \/ b[fc[2]] # 58 THEN Fail ELSE
    Strict(parse_field(fc[1], b, skip_ws(b, fc[2] + 1)), LAMBDA v :
    IF ~v.ok THEN Fail ELSE
    Strict(skip_ws(b, v.i), LAMBDA n :
    IF n > Len(b) \/ b[n] \notin {44, 125} THEN Fail
    ELSE [ok   |-> TRUE,
          v    |-> [x \in (DOMAIN acc) \cup {fc[1]} |-> IF x = fc[1] THEN v.v ELSE acc[x]],
          i    |-> n + 1,
          more |-> b[n] = 44]))))

\* the fields of the Header object after its "{"
RECURSIVE header_fields(_, _, _)
header_fields(b, i, acc) ==
    Strict(header_field(b, i, acc), LAMBDA f :
    IF ~f.ok THEN Fail
    ELSE IF f.more THEN header_fields(b, f.i, f.v)
    ELSE [ok |-> TRUE, v |-> f.v, i |-> f.i])

\* serde_json::from_slice::<Header>(b): the object form the encoder writes, every
\* field exactly once in any order, nothing but whitespace after it
from_slice(bytes) ==
    Strict(bytes, LAMBDA b :
    Strict(skip_ws(b, 1), LAMBDA s :
    IF s > Len(b) \/ b[s] # 123 THEN Fail ELSE
    Strict(skip_ws(b, s + 1), LAMBDA j :
    IF j > Len(b) \/ b[j] = 125 THEN Fail ELSE                 \* EOF / missing field
    Strict(header_fields(b, j, << >>), LAMBDA r :
    IF ~r.ok THEN Fail
    ELSE IF DOMAIN r.v # FieldNames THEN Fail                  \* missing field
    ELSE IF skip_ws(b, r.i) <= Len(b) THEN Fail                \* trailing characters
    ELSE [ok |-> TRUE, v |-> r.v, i |-> r.i]))))

-----------------------------------------------------------------------------
(* RemoteCommand *)

\* fetch_sub in place of fetch_add
fetch_sub(cur) == [ret |-> cur, stored |-> cur - 1]

\* a plain load in place of fetch_add: nothing is stored back
load_only(cur) == [ret |-> cur, stored |-> cur]

\* the value after the addition returned in place of the value before it
add_fetch(cur) == [ret |-> cur + 1, stored |-> cur + 1]

\* AtomicIsize::fetch_add(1, Relaxed) on the value cur: what it returns and what it stores
fetch_add(cur) == [ret |-> cur, stored |-> cur + 1]

\* RemoteCommand::new, with `drawn` the value fetch_add returned
new(code, flag, remark, fields, body, drawn) ==
    [header |-> [code       |-> code,
                 language   |-> << 79, 84, 72, 69, 82 >>,      \* "OTHER"
                 version    |-> 431,
                 opaque     |-> as_i32(drawn),
                 flag       |-> flag,
                 remark     |-> remark,
                 ext_fields |-> fields],
     body   |-> body]

\* encode with the total length computed without _HEADER_LENGTH
encode_short_length(cmd, order) ==
    LET header_bytes == to_vec(cmd.header, order)
        header_len   == Len(header_bytes)
        length       == header_len + Len(cmd.body)
    IN  write_i32_be(len_as_i32(length))
        \o write_i32_be(len_as_i32(header_len))
        \o header_bytes
        \o (IF cmd.body # << >> THEN cmd.body ELSE << >>)

\* RemoteCommand::encode, with `order` the iteration order of ext_fields
encode(cmd, order) ==
    LET header_bytes == to_vec(cmd.header, order)
        header_len   == Len(header_bytes)
        length       == _HEADER_LENGTH + header_len + Len(cmd.body)
    IN  write_i32_be(len_as_i32(length))
        \o write_i32_be(len_as_i32(header_len))
        \o header_bytes
        \o (IF cmd.body # << >> THEN cmd.body ELSE << >>)

Panicked == [kind |-> "Panicked"]
Returned(cmd) == [kind |-> "Returned", cmd |-> cmd]

\* RemoteCommand::from_buffer. Every unwrap() of an Err ends the call by a panic,
\* and so does an underflow of the usize subtraction: it panics in a build with
\* overflow checks, and without them it wraps to a length above isize::MAX, as a
\* negative i32 cast to usize does, which vec! refuses by a panic.
from_buffer(slice) ==
    Strict(slice, LAMBDA in :
    IF Len(in) < 4 THEN Panicked                               \* read_i32 length
    ELSE IF Len(in) < 8 THEN Panicked                          \* read_i32 header_len
    ELSE
    Strict(<< read_i32_be(SubSeq(in, 1, 4)), read_i32_be(SubSeq(in, 5, 8)) >>, LAMBDA l :
    LET length     == l[1]
        header_len == l[2]
    IN  IF header_len < 0 THEN Panicked                        \* vec![0; header_len as usize]
        ELSE IF Len(in) - 8 < header_len THEN Panicked         \* read_exact header_buf
        ELSE
        Strict(from_slice(SubSeq(in, 9, 8 + header_len)), LAMBDA header :
        IF ~header.ok THEN Panicked                            \* from_slice(..).unwrap()
        ELSE IF length < 0 THEN Panicked                       \* vec![0; body_len], body_len >= 2^63
        ELSE IF length < _HEADER_LENGTH + header_len THEN Panicked   \* usize subtraction underflows
        ELSE
        LET body_len == length - _HEADER_LENGTH - header_len IN
        IF body_len > 0
        THEN IF Len(in) - 8 - header_len < body_len THEN Panicked   \* read_exact body_buf
             ELSE Returned([header |-> header.v,
                            body   |-> SubSeq(in, 9 + header_len, 8 + header_len + body_len)])
        ELSE Returned([header |-> header.v, body |-> << >>]))))

-----------------------------------------------------------------------------
(* Threads of one process using the codec *)

Threads == {"t1", "t2"}

NoCmd == [none |-> TRUE]
NoResult == [kind |-> "None"]

Str_remark    == << 114, 101, 109, 97, 114, 107 >>                    \* "remark"
Str_messageId == << 109, 101, 115, 115, 97, 103, 101, 73, 100 >>      \* "messageId"
Str_offset    == << 111, 102, 102, 115, 101, 116 >>                   \* "offset"
Str_123       == << 49, 50, 51 >>                                     \* "123"
Str_456       == << 52, 53, 54 >>                                     \* "456"
Str_Hello     == << 72, 101, 108, 108, 111, 32, 87, 111, 114, 108, 100 >>   \* "Hello World"
\* a quote, a backslash, a newline, the control character U+0001, and U+00E9
Str_escapes   == << 34, 92, 10, 1, 195, 169 >>
Str_key       == << 107, 34 >>                                        \* k"

EmptyFields == << >>
TestFields  == [k \in {Str_messageId, Str_offset} |-> IF k = Str_messageId THEN Str_123 ELSE Str_456]
OneField    == [k \in {Str_key} |-> << >>]

\* the arguments RemoteCommand::new is called with: the scenario of the test
\* (protocol.rs:91-94), the all-empty command, and the two mixed ones
Args ==
    { [code |-> 10, flag |-> 0, remark |-> Str_remark, fields |-> TestFields, body |-> Str_Hello],
      [code |-> 0, flag |-> 0, remark |-> << >>, fields |-> EmptyFields, body |-> << >>],
      [code |-> 0 - 105, flag |-> 1, remark |-> Str_escapes, fields |-> OneField, body |-> << >>],
      [code |-> 7, flag |-> 2, remark |-> << 114 >>, fields |-> EmptyFields, body |-> << 0, 255 >>] }

\* the orders a HashMap with key set S may be iterated in
RECURSIVE Orders(_)
Orders(S) ==
    IF S = {} THEN { << >> }
    ELSE UNION { { << k >> \o o : o \in Orders(S \ {k}) } : k \in S }

InitProtocol ==
    /\ GLOBAL_OPAQUE = 0
    /\ issued = << >>
    /\ pc = [t \in Threads |-> "start"]
    /\ held = [t \in Threads |-> NoCmd]
    /\ buf = [t \in Threads |-> << >>]
    /\ input = [t \in Threads |-> << >>]
    /\ result = [t \in Threads |-> NoResult]

\* thread t calls RemoteCommand::new(a.code, a.flag, a.remark, a.fields, a.body)
New(t, a) ==
    /\ Len(issued) < MaxNew
    /\ LET r   == fetch_add(GLOBAL_OPAQUE)
           cmd == new(a.code, a.flag, a.remark, a.fields, a.body, r.ret)
       IN  /\ GLOBAL_OPAQUE' = r.stored
           /\ issued' = Append(issued, cmd.header.opaque)
           /\ held' = [held EXCEPT ![t] = cmd]
    /\ pc' = [pc EXCEPT ![t] = "constructed"]
    /\ buf' = [buf EXCEPT ![t] = << >>]
    /\ input' = [input EXCEPT ![t] = << >>]
    /\ result' = [result EXCEPT ![t] = NoResult]
    /\ UNCHANGED producerVars

\* thread t calls held[t].encode()
Encode(t) ==
    /\ pc[t] # "start"
    /\ held[t] # NoCmd
    /\ \E order \in Orders(DOMAIN held[t].header.ext_fields) :
          buf' = [buf EXCEPT ![t] = encode(held[t], order)]
    /\ pc' = [pc EXCEPT ![t] = "encoded"]
    /\ input' = [input EXCEPT ![t] = << >>]
    /\ result' = [result EXCEPT ![t] = NoResult]
    /\ UNCHANGED <<GLOBAL_OPAQUE, issued, held>>
    /\ UNCHANGED producerVars

\* thread t passes the encoded frame on as the slice to decode (protocol.rs:96)
Loopback(t) ==
    /\ pc[t] = "encoded"
    /\ input' = [input EXCEPT ![t] = buf[t]]
    /\ pc' = [pc EXCEPT ![t] = "received"]
    /\ UNCHANGED <<GLOBAL_OPAQUE, issued, held, buf, result>>
    /\ UNCHANGED producerVars

\* thread t calls RemoteCommand::from_buffer(input[t])
FromBuffer(t) ==
    /\ pc[t] = "received"
    /\ result' = [result EXCEPT ![t] = from_buffer(input[t])]
    /\ pc' = [pc EXCEPT ![t] = "decoded"]
    /\ UNCHANGED <<GLOBAL_OPAQUE, issued, held, buf, input>>
    /\ UNCHANGED producerVars

-----------------------------------------------------------------------------
(* Resolvers and the name server: crate::resolver and crate::namesrv *)

HttpResolver_new(group) == [type |-> "HttpResolver", group |-> group, domain |-> "DEFAULT"]

HttpResolver_with_domain(group, url) == [type |-> "HttpResolver", group |-> group, domain |-> url]

PassthroughResolver_new(addrs, fallback) ==
    [type |-> "PassthroughResolver", addrs |-> addrs, fallback |-> fallback]

ResolveOk(addrs) == [ok |-> TRUE, addrs |-> addrs]
ResolveErr(e) == [ok |-> FALSE, err |-> e]

\* what one HTTP discovery request may come back with
NetOutcomes ==
    { ResolveOk(<< "10.0.0.2:9876" >>), ResolveErr("Unreachable"), ResolveErr("Malformed") }

\* a resolver supplied by the application, with a fixed answer
FixedResolver(outcome) == [type |-> "FixedResolver", outcome |-> outcome]

\* NsResolver::resolve, with `net` the outcome of the HTTP request (if one is made)
resolve(r, net) ==
    CASE r.type = "HttpResolver" -> net
      [] r.type = "PassthroughResolver" ->
            IF r.addrs # << >> THEN ResolveOk(r.addrs) ELSE net    \* the fallback is an HttpResolver
      [] OTHER -> r.outcome

\* NameServer::new(resolver): the initial resolve; Err when it fails
NameServer_new(resolver, net) ==
    LET r == resolve(resolver, net) IN
    IF r.ok THEN [ok |-> TRUE, v |-> [resolver |-> resolver, addrs |-> r.addrs]]
    ELSE [ok |-> FALSE, err |-> r.err]

ClientOptions_new(group) == [group_name |-> group]

Client_new(client_options, name_server) == [options |-> client_options, name_server |-> name_server]

-----------------------------------------------------------------------------
(* ProducerOptions and Producer *)

RoundRobinQueueSelector_new == [type |-> "RoundRobinQueueSelector"]

\* impl Default for ProducerOptions
ProducerOptions_default ==
    [selector                 |-> RoundRobinQueueSelector_new,
     send_msg_timeout         |-> 3,                              \* Duration::from_secs(3)
     default_topic_queue_nums |-> 4,
     create_topic_key         |-> "TBW102",
     resolver                 |-> HttpResolver_new("DEFAULT")]

set_send_msg_timeout(self, timeout) == [self EXCEPT !.send_msg_timeout = timeout]

set_default_topic_queue_nums(self, queue_nums) == [self EXCEPT !.default_topic_queue_nums = queue_nums]

\* the key set on a fresh default value, which then replaces *self
set_create_topic_key_on_default(self, key) ==
    [selector                 |-> [type |-> "RoundRobinQueueSelector"],
     send_msg_timeout         |-> 3,
     default_topic_queue_nums |-> 4,
     create_topic_key         |-> key,
     resolver                 |-> HttpResolver_new("DEFAULT")]

set_create_topic_key(self, key) == [self EXCEPT !.create_topic_key = key]

set_resolver(self, r) == [self EXCEPT !.resolver = r]

set_name_server(self, addrs) ==
    [self EXCEPT !.resolver = PassthroughResolver_new(addrs, HttpResolver_new("DEFAULT"))]

set_name_server_domain(self, url) ==
    [self EXCEPT !.resolver = HttpResolver_with_domain("DEFAULT", url)]

Ok(v) == [kind |-> "Ok", producer |-> v]
Err(e) == [kind |-> "Err", error |-> e]

\* with_options that drops the error of NameServer::new and resolves later
with_options_lazy(group, opts, name_server) ==
    Ok([group   |-> group,
        options |-> opts,
        client  |-> Client_new(ClientOptions_new(group),
                               IF name_server.ok THEN name_server.v
                               ELSE [resolver |-> opts.resolver, addrs |-> << >>])])

\* Producer::with_options, with `name_server` what NameServer::new returned
with_options(group, opts, name_server) ==
    LET client_options == ClientOptions_new(group) IN
    IF ~name_server.ok THEN Err(name_server.err)                   \* the `?`
    ELSE Ok([group   |-> group,
             options |-> opts,
             client  |-> Client_new(client_options, name_server.v)])

\* the arguments the setters are called with (seconds, usize, strings)
Timeouts  == {1, 3, 30}
QueueNums == {0, 1, 4, 16}
TopicKeys == {"TBW102", "AUTO"}
Resolvers == { FixedResolver(ResolveOk(<< "10.0.0.9:9876" >>)), FixedResolver(ResolveErr("Unreachable")) }
AddrLists == { << >>, << "10.0.0.1:9876" >> }
Domains   == { "http://ns.example/rocketmq" }
Groups    == { "group-a" }

Unset == [op |-> "none"]
NoOp == [op |-> "ProducerOptions::new"]
NoResolve == [done |-> FALSE]
NotBuilt == [kind |-> "None"]

OptionFields == {"send_msg_timeout", "default_topic_queue_nums", "create_topic_key", "resolver"}

\* ProducerOptions::new()
InitProducer ==
    /\ options = ProducerOptions_default
    /\ lastSet = [f \in OptionFields |-> Unset]
    /\ lastOp = NoOp
    /\ resolved = NoResolve
    /\ built = NotBuilt

\* the application starts over with a fresh ProducerOptions::new()
OptionsNew ==
    /\ built # NotBuilt
    /\ options' = ProducerOptions_default
    /\ lastSet' = [f \in OptionFields |-> Unset]
    /\ lastOp' = NoOp
    /\ resolved' = NoResolve
    /\ built' = NotBuilt
    /\ UNCHANGED protocolVars

\* a setter call on the options value: it is recorded in lastOp and, under the
\* field it is documented to set, in lastSet
Setter(field, call, after) ==
    /\ built = NotBuilt
    /\ options' = after
    /\ lastSet' = [lastSet EXCEPT ![field] = call]
    /\ lastOp' = call
    /\ UNCHANGED <<resolved, built>>
    /\ UNCHANGED protocolVars

SetSendMsgTimeout ==
    \E d \in Timeouts :
        Setter("send_msg_timeout", [op |-> "set_send_msg_timeout", arg |-> d],
               set_send_msg_timeout(options, d))

SetDefaultTopicQueueNums ==
    \E n \in QueueNums :
        Setter("default_topic_queue_nums", [op |-> "set_default_topic_queue_nums", arg |-> n],
               set_default_topic_queue_nums(options, n))

SetCreateTopicKey ==
    \E k \in TopicKeys :
        Setter("create_topic_key", [op |-> "set_create_topic_key", arg |-> k],
               set_create_topic_key(options, k))

SetResolver ==
    \E r \in Resolvers :
        Setter("resolver", [op |-> "set_resolver", arg |-> r], set_resolver(options, r))

SetNameServer ==
    \E a \in AddrLists :
        Setter("resolver", [op |-> "set_name_server", arg |-> a], set_name_server(options, a))

SetNameServerDomain ==
    \E u \in Domains :
        Setter("resolver", [op |-> "set_name_server_domain", arg |-> u],
               set_name_server_domain(options, u))

\* Producer::with_options(group, opts): the resolve inside NameServer::new, then the result
Construct(group, opts, net, op) ==
    /\ built = NotBuilt
    /\ LET name_server == NameServer_new(opts.resolver, net) IN
       /\ resolved' = [done |-> TRUE, by |-> opts.resolver, outcome |-> resolve(opts.resolver, net)]
       /\ built' = with_options(group, opts, name_server)
    /\ lastOp' = [op |-> op]
    /\ UNCHANGED <<options, lastSet>>
    /\ UNCHANGED protocolVars

WithOptions == \E g \in Groups, net \in NetOutcomes : Construct(g, options, net, "Producer::with_options")

\* Producer::new(group) == with_options(group, ProducerOptions::new())
ProducerNew == \E g \in Groups, net \in NetOutcomes : Construct(g, ProducerOptions_default, net, "Producer::new")

-----------------------------------------------------------------------------
(* Specifications *)

\* the codec used by the threads of one process
Init == InitProtocol /\ InitProducer

Next ==
    \/ \E t \in Threads, a \in Args : New(t, a)
    \/ \E t \in Threads : Encode(t)
    \/ \E t \in Threads : Loopback(t)
    \/ \E t \in Threads : FromBuffer(t)

Spec == Init /\ [][Next]_vars

\* configuring ProducerOptions and constructing a Producer
NextProducer ==
    \/ SetSendMsgTimeout
    \/ SetDefaultTopicQueueNums
    \/ SetCreateTopicKey
    \/ SetResolver
    \/ SetNameServer
    \/ SetNameServerDomain
    \/ WithOptions
    \/ ProducerNew
    \/ OptionsNew

SpecProducer == Init /\ [][NextProducer]_vars

\* from_buffer on slices that arrive from outside: frames the encoder wrote,
\* cut short, damaged, or with their length fields changed
Receiver == "t1"

Frames ==
    UNION { { encode(new(a.code, a.flag, a.remark, a.fields, a.body, 1), o) :
                o \in Orders(DOMAIN a.fields) } : a \in Args }

HeaderLenOf(f) == read_i32_be(SubSeq(f, 5, 8))

Mangled(f) ==
    { SubSeq(f, 1, n) : n \in 0..Len(f) }                                  \* cut short (or whole)
    \cup { f \o << 0 >> }                                                  \* bytes after the frame
    \cup { [f EXCEPT ![i] = 0] : i \in 9..(8 + HeaderLenOf(f)) }           \* a NUL in the header
    \cup { SubSeq(f, 1, 4) \o write_i32_be(HeaderLenOf(f) - 1) \o SubSeq(f, 9, Len(f)),
           SubSeq(f, 1, 4) \o write_i32_be(0 - 1) \o SubSeq(f, 9, Len(f)),
           write_i32_be(3) \o SubSeq(f, 5, Len(f)),
           write_i32_be(0 - 1) \o SubSeq(f, 5, Len(f)) }                   \* wrong length fields

Inputs == UNION { Mangled(f) : f \in Frames }

InitFromBuffer ==
    /\ GLOBAL_OPAQUE = 0
    /\ issued = << >>
    /\ pc = [t \in Threads |-> IF t = Receiver THEN "received" ELSE "start"]
    /\ held = [t \in Threads |-> NoCmd]
    /\ buf = [t \in Threads |-> << >>]
    /\ \E in \in Inputs : input = [t \in Threads |-> IF t = Receiver THEN in ELSE << >>]
    /\ result = [t \in Threads |-> NoResult]
    /\ InitProducer

NextFromBuffer == \E t \in Threads : FromBuffer(t)

SpecFromBuffer == InitFromBuffer /\ [][NextFromBuffer]_vars

-----------------------------------------------------------------------------
(* Claims about the codec, checked under Spec *)

Decoded(t) == pc[t] = "decoded"
Encoded(t) == pc[t] \in {"encoded", "received", "decoded"}

\* C1. Round trip: whenever a thread has decoded the frame it encoded from the
\* command it holds, from_buffer returned a command with the same header fields
\* (code, language, version, opaque, flag, remark, ext_fields) and the same body.
C1_RoundTrip ==
    \A t \in Threads :
        (Decoded(t) /\ input[t] = buf[t]) =>
            /\ result[t].kind = "Returned"
            /\ \A f \in FieldNames : result[t].cmd.header[f] = held[t].header[f]
            /\ DOMAIN result[t].cmd.header = FieldNames
            /\ result[t].cmd.body = held[t].body

\* both threads have decoded: one the all-empty command, one the command of the test
C1_Witness ==
    \E t, u \in Threads :
        /\ Decoded(t) /\ Decoded(u)
        /\ held[t].body = << >> /\ held[t].header.ext_fields = EmptyFields
        /\ held[u].body = Str_Hello /\ held[u].header.ext_fields = TestFields
        /\ result[t] = Returned(held[t]) /\ result[u] = Returned(held[u])

\* the unsigned value of four big-endian bytes
BigEndian(b) == (b[1] * 16777216) + (b[2] * 65536) + (b[3] * 256) + b[4]

\* C4. Frame layout: the output of encode() is 8 + H + B bytes long, H the length
\* of the serialized header and B of the body; bytes 0..4 are 4 + H + B and bytes
\* 4..8 are H, big-endian; then come the H header bytes and the B body bytes.
C4_FrameLayout ==
    \A t \in Threads :
        Encoded(t) =>
            \E order \in Orders(DOMAIN held[t].header.ext_fields) :
                LET hb == to_vec(held[t].header, order)
                    H  == Len(hb)
                    B  == Len(held[t].body)
                IN  /\ Len(buf[t]) = 8 + H + B
                    /\ BigEndian(SubSeq(buf[t], 1, 4)) = 4 + H + B
                    /\ BigEndian(SubSeq(buf[t], 5, 8)) = H
                    /\ SubSeq(buf[t], 9, 8 + H) = hb
                    /\ SubSeq(buf[t], 9 + H, Len(buf[t])) = held[t].body

\* a frame with a body and one without have been encoded
C4_Witness ==
    \E t, u \in Threads :
        /\ Encoded(t) /\ held[t].body = << >> /\ Len(buf[t]) > 8
        /\ Encoded(u) /\ held[u].body = Str_Hello /\ Len(buf[u]) > 8 + Len(Str_Hello)

\* the number of commands constructed before the opaque leaves the positive range
BeforeBoundary == 2^(OpaqueBits - 1)

\* C2. Opaque monotonicity: among the commands constructed before the counter
\* reaches the boundary of the signed width, each opaque is strictly greater than
\* the opaque of every command constructed before it.
C2_Monotonic ==
    \A i, j \in 1..Len(issued) :
        (i < j /\ j <= BeforeBoundary) => issued[i] < issued[j]

\* all the commands before the boundary have been constructed
C2_Witness == Len(issued) >= BeforeBoundary /\ BeforeBoundary >= 2

\* C3. Opaque uniqueness under concurrency: in any interleaving of the threads'
\* calls, with fewer than 2^w calls in total, no two constructed commands carry the
\* same opaque, and the commands two threads hold differ in it.
C3_Unique ==
    Len(issued) < 2^OpaqueBits =>
        /\ \A i, j \in 1..Len(issued) : i # j => issued[i] # issued[j]
        /\ \A t, u \in Threads :
              (t # u /\ held[t] # NoCmd /\ held[u] # NoCmd) =>
                  held[t].header.opaque # held[u].header.opaque

\* t1, t2, then t1 again have constructed a command
C3_Witness ==
    /\ Len(issued) = 3
    /\ held["t1"] # NoCmd /\ held["t2"] # NoCmd
    /\ held["t1"].header.opaque = issued[3]
    /\ held["t2"].header.opaque = issued[2]

\* the counter counts the calls of new, the n-th call (from 0) got opaque n before
\* wraparound, and a decoded frame carries the opaque it was encoded with
C9_Inv ==
    /\ GLOBAL_OPAQUE = Len(issued)
    /\ \A n \in 1..Len(issued) : n <= BeforeBoundary => issued[n] = n - 1
    /\ \A t \in Threads :
          (Decoded(t) /\ result[t].kind = "Returned") =>
              /\ result[t].cmd.header.opaque = held[t].header.opaque
              /\ \E n \in 1..Len(issued) : issued[n] = result[t].cmd.header.opaque

\* a call of new advances the counter by one, any other step leaves it unchanged
C9_Step ==
    /\ Len(issued') = Len(issued) + 1 => GLOBAL_OPAQUE' = GLOBAL_OPAQUE + 1
    /\ Len(issued') = Len(issued) => GLOBAL_OPAQUE' = GLOBAL_OPAQUE
    /\ Len(issued') \in {Len(issued), Len(issued) + 1}

\* C9. Counter accounting: the counter equals the number of RemoteCommand::new
\* calls made so far, the n-th call (from 0) got opaque n before wraparound, a step
\* that is a call of new advances the counter by exactly one, every other step
\* (encode, from_buffer) leaves it unchanged, and a decoded frame carries the
\* opaque it was encoded with.
C9_Accounting == [](C9_Inv) /\ [][C9_Step]_vars

\* two commands were constructed, the second one encoded and decoded
C9_Witness ==
    /\ GLOBAL_OPAQUE = 2
    /\ \E t \in Threads : Decoded(t) /\ result[t].kind = "Returned" /\ result[t].cmd.header.opaque = 1

\* C10. Opaque wraparound: the opaque of the n-th command (from 0) is n truncated
\* to the signed width w, while the counter keeps growing; the command after the
\* one with opaque 2^(w-1) - 1 gets -2^(w-1); and two commands carry the same
\* opaque exactly when their indices differ by a multiple of 2^w.
C10_Wraparound ==
    /\ GLOBAL_OPAQUE = Len(issued)
    /\ \A n \in 1..Len(issued) :
          /\ issued[n] >= 0 - 2^(OpaqueBits - 1)
          /\ issued[n] <= 2^(OpaqueBits - 1) - 1
          /\ (issued[n] - (n - 1)) % 2^OpaqueBits = 0
          /\ (issued[n] = 2^(OpaqueBits - 1) - 1 /\ n < Len(issued))
                => issued[n + 1] = 0 - 2^(OpaqueBits - 1)
    /\ \A i, j \in 1..Len(issued) :
          (issued[i] = issued[j]) <=> ((i - j) % 2^OpaqueBits = 0)

\* the counter has passed the boundary and the first opaque has been given out again
C10_Witness ==
    /\ Len(issued) = 2^OpaqueBits + 1
    /\ GLOBAL_OPAQUE > 2^(OpaqueBits - 1) - 1
    /\ issued[2^(OpaqueBits - 1) + 1] = 0 - 2^(OpaqueBits - 1)
    /\ issued[2^OpaqueBits + 1] = issued[1]

-----------------------------------------------------------------------------
(* Claim about decoding damaged input, checked under SpecFromBuffer *)

\* the buffer is shorter than its two length fields declare
TooShort(in) ==
    \/ Len(in) < 8
    \/ Len(in) - 8 < read_i32_be(SubSeq(in, 5, 8))
    \/ Len(in) - 8 - read_i32_be(SubSeq(in, 5, 8))
          < read_i32_be(SubSeq(in, 1, 4)) - 4 - read_i32_be(SubSeq(in, 5, 8))

\* the declared header bytes are there and do not parse into a Header
BadHeader(in) ==
    /\ Len(in) >= 8
    /\ read_i32_be(SubSeq(in, 5, 8)) >= 0
    /\ Len(in) - 8 >= read_i32_be(SubSeq(in, 5, 8))
    /\ ~from_slice(SubSeq(in, 9, 8 + read_i32_be(SubSeq(in, 5, 8)))).ok

\* C5. Decode error reporting: for a buffer that is shorter than declared, or whose
\* header bytes do not parse, from_buffer returns a FramingError to its caller.
C5_FramingError ==
    \A t \in Threads :
        (Decoded(t) /\ (TooShort(input[t]) \/ BadHeader(input[t]))) =>
            result[t].kind = "FramingError"

-----------------------------------------------------------------------------
(* Claims about ProducerOptions and Producer, checked under SpecProducer *)

\* C6. Fail-fast construction: a construction has performed the resolve of the
\* options' resolver; a Producer is returned only when that resolve succeeded, and
\* when it failed the call returns its error and no Producer.
C6_FailFast ==
    built # NotBuilt =>
        /\ resolved.done
        /\ built.kind \in {"Ok", "Err"}
        /\ built.kind = "Ok" <=> resolved.outcome.ok
        /\ built.kind = "Ok" =>
              /\ built.producer.options.resolver = resolved.by
              /\ built.producer.client.name_server.addrs = resolved.outcome.addrs
        /\ built.kind = "Err" =>
              /\ built.error = resolved.outcome.err
              /\ DOMAIN built = {"kind", "error"}

\* a construction whose resolve failed has returned the error
C6_Witness ==
    /\ built # NotBuilt
    /\ resolved.done /\ ~resolved.outcome.ok
    /\ built = Err("Unreachable")

\* C7. Invalid queue count is rejected: the stored default_topic_queue_nums is a
\* positive integer after any sequence of setter calls.
C7_QueueNumsPositive ==
    /\ options.default_topic_queue_nums > 0
    /\ built.kind = "Ok" => built.producer.options.default_topic_queue_nums > 0

\* the value a setter call is documented to leave in its field
ValueSet(call) ==
    CASE call.op = "set_name_server" ->
            [type |-> "PassthroughResolver", addrs |-> call.arg,
             fallback |-> [type |-> "HttpResolver", group |-> "DEFAULT", domain |-> "DEFAULT"]]
      [] call.op = "set_name_server_domain" ->
            [type |-> "HttpResolver", group |-> "DEFAULT", domain |-> call.arg]
      [] OTHER -> call.arg

\* the field a setter is documented to set
FieldSet(op) ==
    CASE op = "set_send_msg_timeout" -> "send_msg_timeout"
      [] op = "set_default_topic_queue_nums" -> "default_topic_queue_nums"
      [] op = "set_create_topic_key" -> "create_topic_key"
      [] op \in {"set_resolver", "set_name_server", "set_name_server_domain"} -> "resolver"
      [] OTHER -> "none"

DefaultValue(f) ==
    CASE f = "send_msg_timeout" -> 3
      [] f = "default_topic_queue_nums" -> 4
      [] f = "create_topic_key" -> "TBW102"
      [] f = "resolver" -> [type |-> "HttpResolver", group |-> "DEFAULT", domain |-> "DEFAULT"]

\* every field holds the value of its last setter call, or its default
C8_Inv ==
    /\ \A f \in OptionFields :
          options[f] = IF lastSet[f] = Unset THEN DefaultValue(f) ELSE ValueSet(lastSet[f])
    /\ options.selector = [type |-> "RoundRobinQueueSelector"]

\* a setter call leaves every field but its own unchanged
C8_Step ==
    FieldSet(lastOp'.op) # "none" =>
        \A f \in DOMAIN options : f # FieldSet(lastOp'.op) => options'[f] = options[f]

\* C8. Independent override: every field of the options holds the value of the
\* last setter call for that field, or its default when there was none (the
\* selector always the round-robin one); and a setter call leaves every field but
\* its own unchanged.
C8_Independent == [](C8_Inv) /\ [][C8_Step]_vars

\* every field has been overridden, the key last
C8_Witness ==
    /\ \A f \in OptionFields : lastSet[f] # Unset /\ options[f] # DefaultValue(f)
    /\ lastOp.op = "set_create_topic_key"

====
